---- MODULE Spec2Model ----
(***************************************************************************)
(* A model of the SaGa-GenAI simulation core: Universe (src/src/universe.py)*)
(* with its resource partitioner, interaction engine and boundary policy,  *)
(* Cell (src/src/cell.py) and Food / Venom (src/src/entities.py).          *)
(*                                                                         *)
(* Numbers.  The program computes in floats; the model computes in exact   *)
(* integers of a fixed unit, stated where each group of definitions starts.*)
(***************************************************************************)
EXTENDS Integers, Sequences, FiniteSets, TLC

VARIABLES
    pc,             \* which caller drives the objects, and where it stands
    p_total,        \* _random_partition: argument total
    p_min_unit,     \* _random_partition: argument min_unit
    p_cap,          \* _random_partition: argument max_parts_cap
    p_chunks,       \* _random_partition: the returned list
    cells,          \* Universe.cells: a sequence of Cell records
    foods,          \* Universe.foods: a sequence of Food records
    venoms,         \* Universe.venoms: a sequence of Venom records
    energy,         \* Universe.energy: the ledger
    boundary_mode,  \* Universe.boundary_mode
    config,         \* Universe.ratio (in hundredths) and Universe.cleanup_depleted
    spatial_grid,   \* Universe._spatial_grid: grid key -> the cells filed under it
    outcome,        \* how the last call of Universe.run ended
    calls,          \* how many calls the caller has made
    log             \* what the last call did: its contacts, or a cell before and after

vars == <<pc, p_total, p_min_unit, p_cap, p_chunks,
          cells, foods, venoms, energy, boundary_mode, config, spatial_grid,
          outcome, calls, log>>

partition_vars == <<p_total, p_min_unit, p_cap, p_chunks>>
universe_vars == <<cells, foods, venoms, energy, boundary_mode, config, spatial_grid,
                   outcome, calls, log>>

Min(a, b) == IF a <= b THEN a ELSE b
Max(a, b) == IF a >= b THEN a ELSE b
Abs(a) == IF a >= 0 THEN a ELSE -a

Ratio == 60                 \* Universe(ratio=0.6), the share of the usable energy spawned as food
CleanupDepleted == TRUE     \* Universe.cleanup_depleted
DefaultConfig == [ratio |-> Ratio, cleanup_depleted |-> CleanupDepleted]

\* defaultdict(list) of line 85: no key is filed yet
EmptyGrid == <<>>

RECURSIVE SumSeq(_)
SumSeq(s) == IF s = <<>> THEN 0 ELSE Head(s) + SumSeq(Tail(s))

(***************************************************************************)
(* Universe._random_partition                                              *)
(*                                                                         *)
(* total and min_unit are integers counted in a unit the caller chooses;   *)
(* eps is the literal 1e-12 of line 347 counted in that unit.  The calls   *)
(* checked on their own count in units of 1e-12, so that eps is RemEps = 1.*)
(* A draw of random.random(), a float of [0, 1), is k / Res for a k of     *)
(* 0..Res-1; every returned chunk is kept multiplied by Res, which keeps   *)
(* min_unit + rem * weight exact.                                          *)
(***************************************************************************)
MaxTotal == 7
MaxMinUnit == 3
MaxCap == 3
Res == 3
RemEps == 1

\* sorted(random.random() for _ in range(k)): the non-decreasing k-tuples of draws
SortedCuts(k) ==
    { c \in [1..k -> 0..(Res - 1)] : \A i \in 1..k : \A j \in 1..k : i <= j => c[i] <= c[j] }

\* the final segment taken from 0.0 instead of from the last cut
WeightsFinalFromZero(cuts) ==
    LET k == Len(cuts) IN
    [i \in 1..(k + 1) |->
        IF i = k + 1 THEN Res
        ELSE cuts[i] - (IF i = 1 THEN 0 ELSE cuts[i - 1])]

\* the gaps between the sorted cut points, plus the final segment 1.0 - last
Weights(cuts) ==
    LET k == Len(cuts) IN
    [i \in 1..(k + 1) |->
        IF i = k + 1 THEN Res - (IF k = 0 THEN 0 ELSE cuts[k])
        ELSE cuts[i] - (IF i = 1 THEN 0 ELSE cuts[i - 1])]

\* random.shuffle(s): every order of s
Shuffle(s) ==
    LET n == Len(s) IN
    { [i \in 1..n |-> s[p[i]]] :
        p \in { q \in [1..n -> 1..n] : \A i \in 1..n : \A j \in 1..n : q[i] = q[j] => i = j } }

\* the part of _random_partition after n is drawn
PartitionOfN(total, min_unit, n, eps) ==
    LET base == [i \in 1..n |-> min_unit * Res]
        rem == total - (n * min_unit)
    IN  IF rem <= eps
        THEN Shuffle(base)
        ELSE UNION { Shuffle([i \in 1..n |-> base[i] + rem * Weights(cuts)[i]]) :
                        cuts \in SortedCuts(n - 1) }

\* a guard on the sign of total instead of total < min_unit
RandomPartitionSignGuard(total, min_unit, max_parts_cap, eps) ==
    IF total <= 0
    THEN { <<>> }
    ELSE LET max_parts_by_energy == total \div min_unit
             max_parts == Max(1, Min(max_parts_by_energy, max_parts_cap))
         IN  UNION { PartitionOfN(total, min_unit, n, eps) : n \in 1..max_parts }

\* _random_partition without the two early returns of lines 337-341
RandomPartitionUnguarded(total, min_unit, max_parts_cap, eps) ==
    LET max_parts_by_energy == total \div min_unit
        max_parts == Max(1, Min(max_parts_by_energy, max_parts_cap))
    IN  UNION { PartitionOfN(total, min_unit, n, eps) : n \in 1..max_parts }

\* every list _random_partition(total, min_unit, max_parts_cap) can return;
\* eps is 1e-12 in the unit of total and min_unit
RandomPartition(total, min_unit, max_parts_cap, eps) ==
    IF total < min_unit
    THEN { <<>> }
    ELSE LET max_parts_by_energy == total \div min_unit IN
         IF max_parts_by_energy <= 0
         THEN { <<>> }
         ELSE LET max_parts == Max(1, Min(max_parts_by_energy, max_parts_cap))
              IN  UNION { PartitionOfN(total, min_unit, n, eps) : n \in 1..max_parts }

PartitionInit ==
    /\ pc = "partition"
    /\ p_total \in 0..MaxTotal
    /\ p_min_unit \in 1..MaxMinUnit
    /\ p_cap \in 0..MaxCap
    /\ p_chunks = <<>>
    /\ cells = <<>> /\ foods = <<>> /\ venoms = <<>> /\ energy = 0
    /\ boundary_mode = "bounce" /\ config = DefaultConfig /\ outcome = "none" /\ calls = 0 /\ log = <<>>
    /\ spatial_grid = EmptyGrid

\* a call _random_partition(p_total, p_min_unit, p_cap)
PartitionCall ==
    /\ pc = "partition"
    /\ \E r \in RandomPartition(p_total, p_min_unit, p_cap, RemEps) : p_chunks' = r
    /\ pc' = "partitioned"
    /\ UNCHANGED <<p_total, p_min_unit, p_cap>>
    /\ UNCHANGED universe_vars

\* the caller picks the next call's arguments
PartitionArgs ==
    /\ pc = "partitioned"
    /\ p_total' \in 0..MaxTotal
    /\ p_min_unit' \in 1..MaxMinUnit
    /\ p_cap' \in 0..MaxCap
    /\ p_chunks' = <<>>
    /\ pc' = "partition"
    /\ UNCHANGED universe_vars

PartitionNext == PartitionCall \/ PartitionArgs

SpecPartition == PartitionInit /\ [][PartitionNext]_vars

\* C2: whenever total < min_unit, _random_partition returns the empty list,
\* whatever the cap.
C2_EmptyBelowMinUnit ==
    (pc = "partitioned" /\ p_total < p_min_unit) => p_chunks = <<>>

C2_Witness ==
    pc = "partitioned" /\ p_total > 0 /\ p_total < p_min_unit /\ p_chunks = <<>>

\* C3: a non-empty list returned by _random_partition has a length n with
\* 1 <= n <= min(floor(total / min_unit), cap), for every cap >= 0.
C3_LengthWithinCap ==
    (pc = "partitioned" /\ p_chunks # <<>>) =>
        /\ 1 <= Len(p_chunks)
        /\ Len(p_chunks) <= Min(p_total \div p_min_unit, p_cap)

\* C4 as claimed: every chunk of a non-empty result is >= min_unit and the
\* chunks sum to total exactly.
C4_ChunksSumExactly ==
    (pc = "partitioned" /\ p_chunks # <<>>) =>
        /\ \A i \in 1..Len(p_chunks) : p_chunks[i] >= p_min_unit * Res
        /\ SumSeq(p_chunks) = p_total * Res

\* C4 as amended: every chunk of a non-empty result is >= min_unit; the
\* chunks sum to total when the remainder total - n * min_unit exceeds 1e-12,
\* and to n * min_unit, short of total by that remainder, when it does not.
C4_ChunksSumUpToEps ==
    (pc = "partitioned" /\ p_chunks # <<>>) =>
        LET n == Len(p_chunks)
            rem == p_total - n * p_min_unit
        IN  /\ \A i \in 1..n : p_chunks[i] >= p_min_unit * Res
            /\ rem > RemEps => SumSeq(p_chunks) = p_total * Res
            /\ rem <= RemEps =>
                /\ SumSeq(p_chunks) = n * p_min_unit * Res
                /\ 0 <= rem

C4_Witness ==
    /\ pc = "partitioned"
    /\ Len(p_chunks) >= 2
    /\ p_total - Len(p_chunks) * p_min_unit > RemEps
    /\ \E i \in 1..Len(p_chunks) : p_chunks[i] > p_min_unit * Res
    /\ \E i \in 1..Len(p_chunks) : p_chunks[i] = p_min_unit * Res

(***************************************************************************)
(* Cells, foods and venoms.                                                *)
(*                                                                         *)
(* Unit: every energy, toxicity, coordinate and velocity below is an       *)
(* integer counted in hundredths (1.0 is 100), and a quotient is truncated *)
(* to a hundredth.  A Cell is [energy, position, vx, vy, ax, ay, age], a   *)
(* Food [energy, position], a Venom [toxicity, position]; a position is a  *)
(* pair <<x, y>>.                                                          *)
(***************************************************************************)
MaxCells == 1
MaxFoods == 2
MaxVenoms == 2
MaxCalls == 4

CellCheckRadius == 10000    \* cell_check_radius = 100.0
EatPad == 10                \* the 0.1 added to food.energy and to cell.energy
SizeFactorCap == 200        \* the 2.0 that caps cell_size_factor
FoodFloor == 1              \* the 0.01 at or below which a resource is set to 0.0

ReproductionEnergyThreshold == 3500     \* Cell.reproduction_energy_threshold = 35.0

\* Cell(id, energy=e, position=pos, vx=v[1], vy=v[2], age=age), the other
\* fields at their defaults
NewCell(e, pos, v, age) ==
    [energy |-> e, position |-> pos, vx |-> v[1], vy |-> v[2], ax |-> 0, ay |-> 0, age |-> age,
     reproduction_energy_threshold |-> ReproductionEnergyThreshold]

\* tools._dist2
Dist2(a, b) ==
    LET dx == a[1] - b[1]
        dy == a[2] - b[2]
    IN  dx * dx + dy * dy

\* Cell.diameter
Diameter(cell) == IF cell.energy <= 0 THEN 0 ELSE cell.energy

\* distance <= cell_radius + resource_radius, both radii half a diameter:
\* sqrt(d2) <= (cell_diameter + value) / 2, squared on both sides
Touching(cell_pos, cell_diameter, res_pos, value) ==
    4 * Dist2(cell_pos, res_pos) <= (cell_diameter + value) * (cell_diameter + value)

\* _get_nearby_foods: the indices of the foods it returns
GetNearbyFoods(position, fs) ==
    { i \in 1..Len(fs) :
        /\ fs[i].energy > 0
        /\ Dist2(position, fs[i].position) <= CellCheckRadius * CellCheckRadius }

\* _get_nearby_venoms: the indices of the venoms it returns
GetNearbyVenoms(position, vs) ==
    { i \in 1..Len(vs) :
        /\ vs[i].toxicity > 0
        /\ Dist2(position, vs[i].position) <= CellCheckRadius * CellCheckRadius }

\* the eat rate without its cap of 2.0 and the amount without its cap of food.energy
EatAmountUncapped(cell_energy, food_energy) ==
    (food_energy * cell_energy) \div (10 * (food_energy + EatPad))

\* amt of the eating logic:
\* min(food.energy * 0.1 * min(cell.energy / (food.energy + 0.1), 2.0), food.energy)
EatAmount(cell_energy, food_energy) ==
    LET capped == cell_energy * 100 >= SizeFactorCap * (food_energy + EatPad)
        raw == IF capped
               THEN (food_energy * SizeFactorCap) \div 1000
               ELSE (food_energy * cell_energy) \div (10 * (food_energy + EatPad))
    IN  Min(raw, food_energy)

\* dmg of the poisoning logic:
\* min(venom.toxicity * 0.09 * venom.toxicity / (cell.energy + 0.1), venom.toxicity)
PoisonDamage(cell_energy, toxicity) ==
    IF 9 * toxicity >= 100 * (cell_energy + EatPad)
    THEN toxicity
    ELSE Min((9 * toxicity * toxicity) \div (100 * (cell_energy + EatPad)), toxicity)

\* no clamp of the poisoned cell's energy
ClampEnergyMissing(e) == e

\* if cell.energy <= 0.0: cell.energy = 0.0
ClampEnergy(e) == IF e <= 0 THEN 0 ELSE e

\* if value <= 0.01: value = 0.0
FloorResource(value) == IF value <= FoodFloor THEN 0 ELSE value

\* the food loop of _interact_partial from food i on; st is
\* [cell, foods, contacts], radius2 the cell's diameter taken before the loops
RECURSIVE FoodLoop(_, _, _, _)
FoodLoop(i, st, nearby, cell_diameter) ==
    IF i > Len(st.foods) THEN st
    ELSE LET food == st.foods[i] IN
         IF /\ i \in nearby
            /\ food.energy > 0
            /\ Touching(st.cell.position, cell_diameter, food.position, food.energy)
         THEN LET amt == EatAmount(st.cell.energy, food.energy)
                  left == FloorResource(food.energy - amt)
                  fed == st.cell.energy + amt
              IN  FoodLoop(i + 1,
                      [cell |-> [st.cell EXCEPT !.energy = fed],
                       foods |-> [st.foods EXCEPT ![i].energy = left],
                       contacts |-> Append(st.contacts,
                            [kind |-> "food", index |-> i,
                             before |-> food.energy, after |-> left,
                             cell_before |-> st.cell.energy, cell_after |-> fed])],
                      nearby, cell_diameter)
         ELSE FoodLoop(i + 1, st, nearby, cell_diameter)

\* the venom loop of _interact_partial from venom i on; st is
\* [cell, venoms, contacts]
RECURSIVE VenomLoop(_, _, _, _)
VenomLoop(i, st, nearby, cell_diameter) ==
    IF i > Len(st.venoms) THEN st
    ELSE LET venom == st.venoms[i] IN
         IF /\ i \in nearby
            /\ venom.toxicity > 0
            /\ Touching(st.cell.position, cell_diameter, venom.position, venom.toxicity)
         THEN LET dmg == PoisonDamage(st.cell.energy, venom.toxicity)
                  left == FloorResource(venom.toxicity - ((dmg * 4) \div 10))
                  hurt == ClampEnergy(st.cell.energy - dmg)
              IN  VenomLoop(i + 1,
                      [cell |-> [st.cell EXCEPT !.energy = hurt],
                       venoms |-> [st.venoms EXCEPT ![i].toxicity = left],
                       contacts |-> Append(st.contacts,
                            [kind |-> "venom", index |-> i,
                             before |-> venom.toxicity, after |-> left,
                             cell_before |-> st.cell.energy, cell_after |-> hurt])],
                      nearby, cell_diameter)
         ELSE VenomLoop(i + 1, st, nearby, cell_diameter)

\* _interact_partial(cell) on the foods fs and the venoms vs:
\* [cell, foods, venoms, contacts] after the call
InteractPartial(cell, fs, vs) ==
    IF cell.energy <= 0
    THEN [cell |-> cell, foods |-> fs, venoms |-> vs, contacts |-> <<>>]
    ELSE LET nearby_foods == GetNearbyFoods(cell.position, fs)
             nearby_venoms == GetNearbyVenoms(cell.position, vs)
             cell_diameter == Diameter(cell)
             fed == FoodLoop(1, [cell |-> cell, foods |-> fs, contacts |-> <<>>],
                             nearby_foods, cell_diameter)
             hurt == VenomLoop(1, [cell |-> fed.cell, venoms |-> vs, contacts |-> fed.contacts],
                               nearby_venoms, cell_diameter)
         IN  [cell |-> hurt.cell, foods |-> fed.foods, venoms |-> hurt.venoms,
              contacts |-> hurt.contacts]

NoCall == [op |-> "none"]

\* Universe.add_cell
AddCell(cell) ==
    /\ Len(cells) < MaxCells
    /\ cells' = Append(cells, cell)
    /\ log' = NoCall
    /\ UNCHANGED <<foods, venoms, energy, boundary_mode, config, spatial_grid, outcome>>

\* Universe.add_food
AddFood(food) ==
    /\ Len(foods) < MaxFoods
    /\ foods' = Append(foods, food)
    /\ log' = NoCall
    /\ UNCHANGED <<cells, venoms, energy, boundary_mode, config, spatial_grid, outcome>>

\* Universe.add_venom
AddVenom(venom) ==
    /\ Len(venoms) < MaxVenoms
    /\ venoms' = Append(venoms, venom)
    /\ log' = NoCall
    /\ UNCHANGED <<cells, foods, energy, boundary_mode, config, spatial_grid, outcome>>

\* a call _interact_partial(cells[c])
InteractCall(c) ==
    LET r == InteractPartial(cells[c], foods, venoms) IN
    /\ cells' = [cells EXCEPT ![c] = r.cell]
    /\ foods' = r.foods
    /\ venoms' = r.venoms
    /\ log' = [op |-> "interact", cell |-> cells[c], foods |-> foods, venoms |-> venoms,
               contacts |-> r.contacts]
    /\ UNCHANGED <<energy, boundary_mode, config, spatial_grid, outcome>>

(***************************************************************************)
(* The interaction engine driven on its own: cells, foods and venoms are   *)
(* added, and then _interact_partial is called on any cell, in any order,  *)
(* up to MaxCalls times.                                                   *)
(***************************************************************************)
InteractCells ==
    { NewCell(e, pos, <<0, 0>>, 0) : e \in {600, 20000}, pos \in {<<0, 0>>} }
InteractFoods ==
    { [energy |-> e, position |-> pos] :
        e \in {1, 1000}, pos \in {<<300, 400>>, <<10300, 0>>} }
InteractVenoms ==
    { [toxicity |-> t, position |-> pos] :
        t \in {1000}, pos \in {<<300, 400>>, <<10300, 0>>} }

InteractInit ==
    /\ pc = "interact"
    /\ p_total = 0 /\ p_min_unit = 1 /\ p_cap = 0 /\ p_chunks = <<>>
    /\ cells = <<>> /\ foods = <<>> /\ venoms = <<>> /\ energy = 0
    /\ boundary_mode = "bounce" /\ config = DefaultConfig /\ outcome = "none" /\ calls = 0 /\ log = NoCall
    /\ spatial_grid = EmptyGrid

\* the caller adds a cell
InteractAddCell ==
    /\ pc = "interact"
    /\ \E cell \in InteractCells : AddCell(cell)
    /\ UNCHANGED <<pc, calls, partition_vars>>

\* the caller adds a food
InteractAddFood ==
    /\ pc = "interact"
    /\ \E food \in InteractFoods : AddFood(food)
    /\ UNCHANGED <<pc, calls, partition_vars>>

\* the caller adds a venom
InteractAddVenom ==
    /\ pc = "interact"
    /\ \E venom \in InteractVenoms : AddVenom(venom)
    /\ UNCHANGED <<pc, calls, partition_vars>>

\* the caller, once the universe is populated, calls _interact_partial on
\* one of the cells
InteractStep ==
    /\ pc \in {"interact", "interacting"}
    /\ calls < MaxCalls
    /\ calls' = calls + 1
    /\ pc' = "interacting"
    /\ \E c \in 1..Len(cells) : InteractCall(c)
    /\ UNCHANGED partition_vars

InteractNext == InteractAddCell \/ InteractAddFood \/ InteractAddVenom \/ InteractStep

SpecInteract == InteractInit /\ [][InteractNext]_vars

FoodContacts ==
    IF log.op = "interact"
    THEN { k \in 1..Len(log.contacts) : log.contacts[k].kind = "food" }
    ELSE {}

VenomContacts ==
    IF log.op = "interact"
    THEN { k \in 1..Len(log.contacts) : log.contacts[k].kind = "venom" }
    ELSE {}

\* C5: starting from non-negative values, after any sequence of
\* _interact_partial calls every food.energy, every venom.toxicity and every
\* cell.energy is >= 0.
C5_NeverNegative ==
    /\ \A i \in 1..Len(foods) : foods[i].energy >= 0
    /\ \A i \in 1..Len(venoms) : venoms[i].toxicity >= 0
    /\ \A i \in 1..Len(cells) : cells[i].energy >= 0

\* a call in which a venom contact took more than the cell had left, a later
\* venom was met by the dead cell, and a food was eaten
C5_Witness ==
    /\ FoodContacts # {}
    /\ \E k \in VenomContacts : \E j \in VenomContacts :
        /\ k < j
        /\ log.contacts[k].cell_before > 0
        /\ log.contacts[k].cell_after = 0
        /\ log.contacts[j].cell_before = 0

\* C6 as claimed: in every food contact the energy removed from the food
\* equals the energy added to the cell, and the amount added never exceeds
\* the food's energy before the contact.
C6_FoodEnergyConserved ==
    \A k \in FoodContacts :
        LET c == log.contacts[k] IN
        /\ c.cell_after + c.after = c.cell_before + c.before
        /\ c.cell_after - c.cell_before <= c.before

\* C6 as amended: in every food contact the amount added to the cell never
\* exceeds the food's energy before the contact; it equals the energy removed
\* from the food when the food keeps more than 0.01, and otherwise the food is
\* left at 0 and the at most 0.01 it had left is added to nothing.
C6_FoodEnergyConservedAboveFloor ==
    \A k \in FoodContacts :
        LET c == log.contacts[k]
            gain == c.cell_after - c.cell_before
            loss == c.before - c.after
        IN  /\ 0 <= gain /\ gain <= c.before
            /\ c.after > FoodFloor => gain = loss
            /\ c.after <= FoodFloor =>
                /\ c.after = 0
                /\ 0 <= loss - gain
                /\ loss - gain <= FoodFloor

\* a call with two food contacts: one that left the food above the floor
\* after a real transfer, one that emptied a food at the floor
C6_Witness ==
    /\ \E k \in FoodContacts :
        /\ log.contacts[k].after > FoodFloor
        /\ log.contacts[k].cell_after > log.contacts[k].cell_before
    /\ \E k \in FoodContacts :
        /\ log.contacts[k].before > 0
        /\ log.contacts[k].after = 0

\* C7: in a call of _interact_partial on a live cell, every food with energy
\* > 0 and every venom with toxicity > 0 whose centre distance to the cell is
\* <= the sum of the two radii has a transfer applied.
C7_AllContactsResolved ==
    (log.op = "interact" /\ log.cell.energy > 0) =>
        /\ \A i \in 1..Len(log.foods) :
            (/\ log.foods[i].energy > 0
             /\ Touching(log.cell.position, Diameter(log.cell),
                         log.foods[i].position, log.foods[i].energy))
            => \E k \in FoodContacts : log.contacts[k].index = i
        /\ \A i \in 1..Len(log.venoms) :
            (/\ log.venoms[i].toxicity > 0
             /\ Touching(log.cell.position, Diameter(log.cell),
                         log.venoms[i].position, log.venoms[i].toxicity))
            => \E k \in VenomContacts : log.contacts[k].index = i

(***************************************************************************)
(* Cell.move, Cell.reproduce and Universe._apply_bounds                    *)
(***************************************************************************)
Width == 5000                           \* Universe.width = 50.0
Height == 5000                          \* Universe.height = 50.0
BounceRestitution == 80                 \* bounce_restitution = 0.8
AccelTau == 50                          \* Cell.accel_tau = 0.5
VelDamping == 2                         \* Cell.vel_damping = 0.02
ReproductionAgeThreshold == 125         \* Cell.reproduction_age_threshold
ReproductionOverhead == 200             \* the 2.0 a parent pays on top of child_energy
MaxHeld == 2                            \* the cells the caller of the three methods holds

\* a * num / den, truncated towards zero
Scaled(a, num, den) ==
    IF a >= 0 THEN (a * num) \div den ELSE -(((-a) * num) \div den)

\* Cell.move(dt = 1); noise is <<sigma * gauss(0, 1), sigma * gauss(0, 1)>>
Move(cell, noise) ==
    LET tau == Max(8, AccelTau)
        ax == cell.ax + Scaled(-cell.ax, 100, tau) + noise[1]
        ay == cell.ay + Scaled(-cell.ay, 100, tau) + noise[2]
        damp == Max(0, Min(100, VelDamping))
        vx == Scaled(cell.vx + ax, 100 - damp, 100)
        vy == Scaled(cell.vy + ay, 100 - damp, 100)
    IN  [cell EXCEPT !.ax = ax, !.ay = ay, !.vx = vx, !.vy = vy,
                     !.position = <<cell.position[1] + vx, cell.position[2] + vy>>]

NoChild == [energy |-> -1]

\* Cell.die
Die(cell) == [cell EXCEPT !.energy = 0]

\* the parent charged the energy of the child only
PaidChildOnly(cell, child_energy) == [cell EXCEPT !.energy = @ - child_energy]

\* line 134 of reproduce: self.energy -= child_energy + 2.0
Paid(cell, child_energy) == [cell EXCEPT !.energy = @ - (child_energy + ReproductionOverhead)]

\* Cell.reproduce without the check of the parent's energy after the deduction
ReproduceUnchecked(cell, lucky, dir, offset) ==
    LET can_reproduce == /\ cell.energy >= cell.reproduction_energy_threshold
                         /\ cell.age >= ReproductionAgeThreshold
                         /\ lucky
    IN  IF ~can_reproduce
        THEN [parent |-> cell, child |-> NoChild]
        ELSE LET child_energy == cell.energy \div 2
                 paid == Paid(cell, child_energy)
             IN  [parent |-> paid,
                  child |-> [energy |-> child_energy,
                             position |-> <<paid.position[1] + (paid.energy \div 2) + offset[1],
                                            paid.position[2] + (paid.energy \div 2) + offset[2]>>,
                             vx |-> dir[1], vy |-> dir[2], ax |-> 0, ay |-> 0,
                             age |-> 0,
                             reproduction_energy_threshold |->
                                 paid.reproduction_energy_threshold]]

\* Cell.reproduce: [parent, child] after the call, child = NoChild for None.
\* lucky is random.random() < reproduction_probability, dir is
\* <<cos(angle) * 0.3, sin(angle) * 0.3>>, offset the two draws of
\* random.uniform(-25.0, 25.0)
Reproduce(cell, lucky, dir, offset) ==
    LET can_reproduce == /\ cell.energy >= cell.reproduction_energy_threshold
                         /\ cell.age >= ReproductionAgeThreshold
                         /\ lucky
    IN  IF ~can_reproduce
        THEN [parent |-> cell, child |-> NoChild]
        ELSE LET child_energy == cell.energy \div 2
                 paid == Paid(cell, child_energy)
             IN  IF paid.energy <= 0
                 THEN [parent |-> Die(paid), child |-> NoChild]
                 ELSE [parent |-> paid,
                       child |-> [energy |-> child_energy,
                                  position |-> <<paid.position[1] + (paid.energy \div 2) + offset[1],
                                                 paid.position[2] + (paid.energy \div 2) + offset[2]>>,
                                  vx |-> dir[1], vy |-> dir[2], ax |-> 0, ay |-> 0,
                                  age |-> 0,
                                  reproduction_energy_threshold |->
                                      paid.reproduction_energy_threshold]]

\* the wrap branch with the coordinate reduced modulo the extent
ApplyBoundsModulo(cell, mode) ==
    LET x == cell.position[1]
        y == cell.position[2]
        vx == cell.vx
        vy == cell.vy
    IN  IF mode = "wrap"
        THEN [cell EXCEPT !.position = <<IF x < 0 \/ x > Width THEN x % Width ELSE x,
                                         IF y < 0 \/ y > Height THEN y % Height ELSE y>>]
        ELSE [cell EXCEPT
                !.position = <<IF x < 0 THEN 0 ELSE IF x > Width THEN Width ELSE x,
                               IF y < 0 THEN 0 ELSE IF y > Height THEN Height ELSE y>>,
                !.vx = IF x < 0 THEN Scaled(Abs(vx), BounceRestitution, 100)
                       ELSE IF x > Width THEN -Scaled(Abs(vx), BounceRestitution, 100)
                       ELSE vx,
                !.vy = IF y < 0 THEN Scaled(Abs(vy), BounceRestitution, 100)
                       ELSE IF y > Height THEN -Scaled(Abs(vy), BounceRestitution, 100)
                       ELSE vy]

\* the bounce branch reflecting the velocity without the restitution factor
ApplyBoundsFullRebound(cell, mode) ==
    LET x == cell.position[1]
        y == cell.position[2]
        vx == cell.vx
        vy == cell.vy
    IN  IF mode = "wrap"
        THEN [cell EXCEPT
                !.position = <<IF x < 0 THEN x + Width ELSE IF x > Width THEN x - Width ELSE x,
                               IF y < 0 THEN y + Height ELSE IF y > Height THEN y - Height ELSE y>>]
        ELSE [cell EXCEPT
                !.position = <<IF x < 0 THEN 0 ELSE IF x > Width THEN Width ELSE x,
                               IF y < 0 THEN 0 ELSE IF y > Height THEN Height ELSE y>>,
                !.vx = IF x < 0 THEN Abs(vx) ELSE IF x > Width THEN -Abs(vx) ELSE vx,
                !.vy = IF y < 0 THEN Abs(vy) ELSE IF y > Height THEN -Abs(vy) ELSE vy]

\* Universe._apply_bounds(cell) under boundary_mode = mode
ApplyBounds(cell, mode) ==
    LET x == cell.position[1]
        y == cell.position[2]
        vx == cell.vx
        vy == cell.vy
    IN  IF mode = "wrap"
        THEN [cell EXCEPT
                !.position = <<IF x < 0 THEN x + Width ELSE IF x > Width THEN x - Width ELSE x,
                               IF y < 0 THEN y + Height ELSE IF y > Height THEN y - Height ELSE y>>]
        ELSE [cell EXCEPT
                !.position = <<IF x < 0 THEN 0 ELSE IF x > Width THEN Width ELSE x,
                               IF y < 0 THEN 0 ELSE IF y > Height THEN Height ELSE y>>,
                !.vx = IF x < 0 THEN Scaled(Abs(vx), BounceRestitution, 100)
                       ELSE IF x > Width THEN -Scaled(Abs(vx), BounceRestitution, 100)
                       ELSE vx,
                !.vy = IF y < 0 THEN Scaled(Abs(vy), BounceRestitution, 100)
                       ELSE IF y > Height THEN -Scaled(Abs(vy), BounceRestitution, 100)
                       ELSE vy]

(***************************************************************************)
(* The boundary policy driven as the cell loop of Universe.run drives it:  *)
(* a cell moves or reproduces, and _apply_bounds is called on the cell and *)
(* on the child.                                                           *)
(***************************************************************************)
BoundsCells ==
    { NewCell(20000, pos, <<0, 0>>, ReproductionAgeThreshold) :
        pos \in {<<0, 0>>, <<Width, Height>>} }
MoveNoise == {<<200, 0>>, <<-200, 200>>, <<0, -200>>}
ChildDirs == {<<30, 0>>, <<-18, -24>>}
ChildOffsets == {<<2500, 2500>>, <<-2500, 0>>}

BoundsInit ==
    /\ pc = "bounds"
    /\ p_total = 0 /\ p_min_unit = 1 /\ p_cap = 0 /\ p_chunks = <<>>
    /\ \E cell \in BoundsCells : cells = <<cell>>
    /\ foods = <<>> /\ venoms = <<>> /\ energy = 0
    /\ boundary_mode \in {"bounce", "wrap"} /\ config = DefaultConfig
    /\ spatial_grid = EmptyGrid
    /\ outcome = "none" /\ calls = 0 /\ log = NoCall

\* a call cells[c].move()
BoundsMove ==
    /\ pc = "bounds"
    /\ calls < MaxCalls
    /\ calls' = calls + 1
    /\ \E c \in 1..Len(cells) : \E noise \in MoveNoise :
        /\ cells' = [cells EXCEPT ![c] = Move(cells[c], noise)]
        /\ log' = [op |-> "move", index |-> c]
    /\ UNCHANGED <<pc, partition_vars, foods, venoms, energy, boundary_mode, config, spatial_grid, outcome>>

\* a call cells[c].reproduce(); the caller keeps the child
BoundsReproduce ==
    /\ pc = "bounds"
    /\ calls < MaxCalls
    /\ calls' = calls + 1
    /\ Len(cells) < MaxHeld
    /\ \E c \in 1..Len(cells) : \E lucky \in BOOLEAN :
       \E dir \in ChildDirs : \E offset \in ChildOffsets :
        LET r == Reproduce(cells[c], lucky, dir, offset)
            kept == [cells EXCEPT ![c] = r.parent]
        IN  IF r.child = NoChild
            THEN cells' = kept /\ log' = NoCall
            ELSE /\ cells' = Append(kept, r.child)
                 /\ log' = [op |-> "born", index |-> Len(cells) + 1]
    /\ UNCHANGED <<pc, partition_vars, foods, venoms, energy, boundary_mode, config, spatial_grid, outcome>>

\* a call _apply_bounds(cells[c]) on the cell that moved or was born
BoundsApply ==
    /\ pc = "bounds"
    /\ log.op \in {"move", "born"}
    /\ LET c == log.index
           after == ApplyBounds(cells[c], boundary_mode)
       IN  /\ cells' = [cells EXCEPT ![c] = after]
           /\ log' = [op |-> "bounds", from |-> log.op, before |-> cells[c], after |-> after]
    /\ UNCHANGED <<pc, partition_vars, foods, venoms, energy, boundary_mode, config, spatial_grid, outcome, calls>>

BoundsNext == BoundsMove \/ BoundsReproduce \/ BoundsApply

SpecBounds == BoundsInit /\ [][BoundsNext]_vars

InBounds(position) ==
    /\ 0 <= position[1] /\ position[1] <= Width
    /\ 0 <= position[2] /\ position[2] <= Height

\* C8: after _apply_bounds has run on a cell, in bounce mode and in wrap mode
\* alike, 0 <= x <= width and 0 <= y <= height, for every position Cell.move
\* or the placement of an offspring produces.
C8_InsideAfterBounds ==
    log.op = "bounds" => InBounds(log.after.position)

\* C9: in bounce mode, x > width with vx > 0 ends with x = width and
\* vx = -vx * restitution; x < 0 ends with x = 0 and the non-negative
\* |vx| * restitution; and the same for y with height and vy.
C9_Bounce ==
    (log.op = "bounds" /\ boundary_mode = "bounce") =>
        LET b == log.before
            a == log.after
        IN  /\ (b.position[1] > Width /\ b.vx > 0) =>
                    /\ a.position[1] = Width
                    /\ a.vx = -Scaled(b.vx, BounceRestitution, 100)
            /\ b.position[1] < 0 =>
                    /\ a.position[1] = 0
                    /\ a.vx = Scaled(Abs(b.vx), BounceRestitution, 100)
                    /\ a.vx >= 0
            /\ (b.position[2] > Height /\ b.vy > 0) =>
                    /\ a.position[2] = Height
                    /\ a.vy = -Scaled(b.vy, BounceRestitution, 100)
            /\ b.position[2] < 0 =>
                    /\ a.position[2] = 0
                    /\ a.vy = Scaled(Abs(b.vy), BounceRestitution, 100)
                    /\ a.vy >= 0

\* a cell that moved across x = width with vx > 0 and was bounced back
C9_Witness ==
    /\ log.op = "bounds" /\ boundary_mode = "bounce" /\ log.from = "move"
    /\ log.before.position[1] > Width /\ log.before.vx > 0
    /\ log.after.position[1] = Width /\ log.after.vx < 0

\* C10: in wrap mode, x > width ends with x - width and x < 0 with x + width
\* (and the same for y with height), and vx and vy are unchanged.
C10_Wrap ==
    (log.op = "bounds" /\ boundary_mode = "wrap") =>
        LET b == log.before
            a == log.after
        IN  /\ b.position[1] > Width => a.position[1] = b.position[1] - Width
            /\ b.position[1] < 0 => a.position[1] = b.position[1] + Width
            /\ b.position[2] > Height => a.position[2] = b.position[2] - Height
            /\ b.position[2] < 0 => a.position[2] = b.position[2] + Height
            /\ a.vx = b.vx /\ a.vy = b.vy

\* a cell that moved across x = width with a velocity and was wrapped
C10_Witness ==
    /\ log.op = "bounds" /\ boundary_mode = "wrap" /\ log.from = "move"
    /\ log.before.position[1] > Width /\ log.before.vx > 0
    /\ log.after.position[1] = log.before.position[1] - Width

(***************************************************************************)
(* Cell.run(state): metabolism, the death check, think, move, reproduce    *)
(*                                                                         *)
(* The cells are the ones main.py builds, Cell(basal_metabolism=0.08,      *)
(* move_cost_per_unit=0.02), the other fields at their defaults.  state is *)
(* the dict Cell.think reads: its key "foods" lists the foods as           *)
(* {"energy", "position"}; a state is modelled as [foods |-> a sequence of *)
(* Food records].                                                          *)
(***************************************************************************)
MaxAge == 500               \* Cell.max_age
DeathThreshold == 500       \* the 5.0 of Cell.run
BasalMetabolism == 8        \* Cell(basal_metabolism=0.08)
MoveCostPerUnit == 2        \* Cell(move_cost_per_unit=0.02)
MinRandomSpeed == 50        \* the 0.5 below which _move_random does not slow a cell
InfluenceStrength == 30     \* influence_strength = 0.3

\* (a**2 + b**2) ** 0.5, truncated to a hundredth
RECURSIVE Root(_, _, _)
Root(n, lo, hi) ==
    IF lo >= hi THEN lo
    ELSE LET mid == (lo + hi + 1) \div 2
         IN  IF mid * mid <= n THEN Root(n, mid, hi) ELSE Root(n, lo, mid - 1)

Norm(a, b) == Root(a * a + b * b, 0, Abs(a) + Abs(b))

\* Cell.metabolism
Metabolism(cell) ==
    [cell EXCEPT !.age = @ + 1,
                 !.energy = @ - BasalMetabolism
                              - Scaled(Norm(cell.vx, cell.vy), MoveCostPerUnit, 100)]

\* Cell._move_random: <<vx, vy>>.  turn is <<cos, sin>> of the drawn angle
\* change, in hundredths, and scale the draw of random.uniform(0.9, 1.1);
\* atan2(0, 0) is 0, so a cell at rest heads along the x axis.
MoveRandom(cell, turn, scale) ==
    LET speed == Norm(cell.vx, cell.vy)
        new_speed == Max(MinRandomSpeed, Scaled(speed, scale, 100))
        rx == Scaled(cell.vx * turn[1] - cell.vy * turn[2], 1, 100)
        ry == Scaled(cell.vx * turn[2] + cell.vy * turn[1], 1, 100)
    IN  IF speed = 0
        THEN <<Scaled(turn[1], new_speed, 100), Scaled(turn[2], new_speed, 100)>>
        ELSE <<Scaled(rx, new_speed, speed), Scaled(ry, new_speed, speed)>>

\* tools.distance_to is imported by cell.py and defined nowhere in the
\* repository; it is taken to be the Euclidean distance, compared by its square
DistanceTo2(a, b) == Dist2(a, b)

\* the index of the food _move_towards_closest_food picks: the first one, among
\* the foods with energy > 0, that no other is strictly closer than; 0 for none
ClosestFood(cell, fs) ==
    LET live == { i \in 1..Len(fs) : fs[i].energy > 0 }
        best == { i \in live : \A j \in live :
                    /\ DistanceTo2(cell.position, fs[i].position)
                            <= DistanceTo2(cell.position, fs[j].position)
                    /\ (j < i => DistanceTo2(cell.position, fs[j].position)
                                    > DistanceTo2(cell.position, fs[i].position)) }
    IN  IF best = {} THEN 0 ELSE CHOOSE i \in best : TRUE

\* Cell._move_towards_closest_food: <<vx, vy>>
MoveTowardsClosestFood(cell, state) ==
    LET c == ClosestFood(cell, state.foods) IN
    IF c = 0
    THEN <<0, 0>>
    ELSE LET current_speed == Norm(cell.vx, cell.vy)
             dx == state.foods[c].position[1] - cell.position[1]
             dy == state.foods[c].position[2] - cell.position[2]
             distance == Norm(dx, dy)
         IN  IF distance > 0
             THEN <<Scaled((100 - InfluenceStrength) * cell.vx
                            + InfluenceStrength * Scaled(dx, current_speed, distance), 1, 100),
                    Scaled((100 - InfluenceStrength) * cell.vy
                            + InfluenceStrength * Scaled(dy, current_speed, distance), 1, 100)>>
             ELSE <<0, 0>>

\* Cell.think: the velocity of _move_random, then the one of
\* _move_towards_closest_food computed from it
Think(cell, state, turn, scale) ==
    LET r == MoveRandom(cell, turn, scale)
        wandering == [cell EXCEPT !.vx = r[1], !.vy = r[2]]
        t == MoveTowardsClosestFood(wandering, state)
    IN  [cell EXCEPT !.vx = t[1], !.vy = t[2]]

\* a death check that lets every cell with energy above 0 live
DiesAtZero(m) == m.age >= MaxAge \/ m.energy <= 0

\* line 107 of run, on the cell after metabolism
Dies(m) == m.age >= MaxAge \/ m.energy <= DeathThreshold

\* Cell.run with the death check made after think and move
CellRunLateDeathCheck(cell, state, d) ==
    LET m == Metabolism(cell)
        moved == Move(Think(m, state, d.turn, d.scale), d.noise)
    IN  IF Dies(m)
        THEN [parent |-> Die(moved), child |-> NoChild]
        ELSE Reproduce(moved, d.lucky, d.dir, d.offset)

\* Cell.run(state): [parent, child] after the call, child = NoChild for None.
\* d holds the random draws of the call: turn and scale of _move_random,
\* noise of move, and lucky, dir and offset of reproduce.
CellRun(cell, state, d) ==
    LET m == Metabolism(cell) IN
    IF Dies(m)
    THEN [parent |-> Die(m), child |-> NoChild]
    ELSE Reproduce(Move(Think(m, state, d.turn, d.scale), d.noise), d.lucky, d.dir, d.offset)

(***************************************************************************)
(* Cell driven on its own: a caller holds cells and a state and calls      *)
(* run(state) or reproduce() on any of them, keeping the offspring.        *)
(***************************************************************************)
LowThreshold == 300         \* Cell(reproduction_energy_threshold=3.0)

CellStart == <<100, 100>>
RunCells ==
    { NewCell(20000, CellStart, <<300, 0>>, ReproductionAgeThreshold),
      NewCell(20000, CellStart, <<0, 0>>, MaxAge - 2),
      NewCell(520, CellStart, <<300, 0>>, 0),
      [NewCell(LowThreshold + 20, CellStart, <<300, 0>>, ReproductionAgeThreshold)
          EXCEPT !.reproduction_energy_threshold = LowThreshold],
      [NewCell(2 * DeathThreshold, CellStart, <<300, 0>>, ReproductionAgeThreshold)
          EXCEPT !.reproduction_energy_threshold = LowThreshold] }
StateFoods == { <<>>, << [energy |-> 1000, position |-> <<300, 400>>] >> }
CellDraws ==
    { [turn |-> <<100, 0>>, scale |-> 110, noise |-> <<200, 0>>,
       lucky |-> TRUE, dir |-> <<30, 0>>, offset |-> <<2500, 2500>>],
      [turn |-> <<98, 17>>, scale |-> 90, noise |-> <<-200, 200>>,
       lucky |-> FALSE, dir |-> <<-18, -24>>, offset |-> <<-2500, 0>>] }

CellInit ==
    /\ pc = "cell"
    /\ p_total = 0 /\ p_min_unit = 1 /\ p_cap = 0 /\ p_chunks = <<>>
    /\ \E cell \in RunCells : cells = <<cell>>
    /\ foods \in StateFoods
    /\ venoms = <<>> /\ energy = 0
    /\ boundary_mode = "bounce" /\ config = DefaultConfig
    /\ spatial_grid = EmptyGrid
    /\ outcome = "none" /\ calls = 0 /\ log = NoCall

\* the cells the caller holds after a call on cells[c] gave r
Held(c, r) ==
    LET kept == [cells EXCEPT ![c] = r.parent]
    IN  IF r.child # NoChild /\ Len(cells) < MaxHeld THEN Append(kept, r.child) ELSE kept

\* a call cells[c].run(state)
CellRunStep ==
    /\ pc = "cell"
    /\ calls < MaxCalls
    /\ calls' = calls + 1
    /\ \E c \in 1..Len(cells) : \E d \in CellDraws :
        LET r == CellRun(cells[c], [foods |-> foods], d)
        IN  /\ cells' = Held(c, r)
            /\ log' = [op |-> "run", before |-> cells[c], after |-> r.parent, child |-> r.child]
    /\ UNCHANGED <<pc, partition_vars, foods, venoms, energy, boundary_mode, config, spatial_grid, outcome>>

\* a call cells[c].reproduce()
CellReproduceStep ==
    /\ pc = "cell"
    /\ calls < MaxCalls
    /\ calls' = calls + 1
    /\ \E c \in 1..Len(cells) : \E d \in CellDraws :
        LET r == Reproduce(cells[c], d.lucky, d.dir, d.offset)
        IN  /\ cells' = Held(c, r)
            /\ log' = [op |-> "reproduce", lucky |-> d.lucky,
                       before |-> cells[c], after |-> r.parent, child |-> r.child]
    /\ UNCHANGED <<pc, partition_vars, foods, venoms, energy, boundary_mode, config, spatial_grid, outcome>>

CellNext == CellRunStep \/ CellReproduceStep

SpecCell == CellInit /\ [][CellNext]_vars

\* C11: in Cell.run, when after the metabolism step age >= max_age or
\* energy <= 5.0, the cell ends Dead (energy 0), no offspring is returned, and
\* position, velocity and acceleration are as they were before the call.
C11_DeathShortCircuits ==
    (/\ log.op = "run"
     /\ \/ log.before.age + 1 >= MaxAge
        \/ Metabolism(log.before).energy <= DeathThreshold) =>
        /\ log.after.energy = 0
        /\ log.child = NoChild
        /\ log.after.position = log.before.position
        /\ log.after.vx = log.before.vx /\ log.after.vy = log.before.vy
        /\ log.after.ax = log.before.ax /\ log.after.ay = log.before.ay

\* a moving cell that was alive before the call and died in it, of age or of
\* low energy
C11_Witness ==
    /\ log.op = "run"
    /\ log.before.energy > DeathThreshold /\ log.after.energy = 0
    /\ log.before.vx # 0
    /\ log.before.age + 1 >= MaxAge \/ Metabolism(log.before).energy <= DeathThreshold

\* C12: a call Cell.reproduce() in which the three reproduction conditions
\* hold and the deduction of child_energy + 2.0 leaves the parent's energy
\* <= 0 returns None and leaves the parent Dead, its energy exactly 0.
C12_DeductionKillsParent ==
    (/\ log.op = "reproduce"
     /\ log.before.energy >= log.before.reproduction_energy_threshold
     /\ log.before.age >= ReproductionAgeThreshold
     /\ log.lucky
     /\ log.before.energy - ((log.before.energy \div 2) + ReproductionOverhead) <= 0) =>
        /\ log.child = NoChild
        /\ log.after.energy = 0

\* a live cell whose reproduction was due and was lucky, and that could not
\* pay for the child
C12_Witness ==
    /\ log.op = "reproduce" /\ log.lucky
    /\ log.before.energy > 0
    /\ log.before.energy >= log.before.reproduction_energy_threshold
    /\ log.before.age >= ReproductionAgeThreshold
    /\ log.before.energy - ((log.before.energy \div 2) + ReproductionOverhead) <= 0
    /\ log.after.energy = 0

(***************************************************************************)
(* Universe.run, Universe.degrade_all and the spawning of resources        *)
(*                                                                         *)
(* The universe is the one of Universe(initial_energy=7, ratio=0.6,        *)
(* max_new_foods=2, max_new_venoms=1, max_cells=3) with the other          *)
(* parameters at their defaults.  In hundredths the eps of                 *)
(* _random_partition is 0: a remainder that is a whole number of           *)
(* hundredths is <= 1e-12 exactly when it is <= 0.                         *)
(***************************************************************************)
InitialEnergy == 700            \* initial_energy = 7
WasteFactor == 95               \* waste_factor = 0.95
VenomEnergyToToxicity == 100    \* venom_energy_to_toxicity = 1.0
FoodDegradeFactor == 78         \* food_degrade_factor = 0.78
VenomDegradeFactor == 80        \* venom_degrade_factor = 0.80
MaxNewFoods == 2                \* max_new_foods
MaxNewVenoms == 1               \* max_new_venoms
MinUnitFood == 100              \* min_unit_food = 1.0
MinUnitVenom == 100             \* min_unit_venom = 1.0
MaxCellsConfig == 3             \* max_cells
SpawnPeriod == 50               \* resources are added when cycle_count % 50 == 0
DegradeFloor == 1               \* the 0.01 below which degrade sets the value to 0.0
RemEpsHundredths == 0           \* the 1e-12 of _random_partition, in hundredths
MaxRuns == 2                    \* the calls of run the caller makes

\* degrade without the reset of a value below the floor
DegradeUnfloored(value, factor, floor) == Scaled(value, factor, 100)

\* Food.degrade and Venom.degrade, on the value; floor is the 0.01 of lines 15
\* and 35 in the unit of value
Degrade(value, factor, floor) ==
    LET v == Scaled(value, factor, 100)
    IN  IF v < floor THEN 0 ELSE v

\* the filter of line 141 keeping every cell
KeepsEveryCell(c) == TRUE

IsLiveCell(c) == c.energy > 0
IsLiveFood(f) == f.energy > 0
IsLiveVenom(v) == v.toxicity > 0

\* degrade_all that degrades nothing and only drops what is depleted
DegradeAllCleanupOnly(fs, vs) ==
    IF config.cleanup_depleted
    THEN [foods |-> SelectSeq(fs, IsLiveFood), venoms |-> SelectSeq(vs, IsLiveVenom)]
    ELSE [foods |-> fs, venoms |-> vs]

\* Universe.degrade_all: [foods, venoms] after the call
DegradeAll(fs, vs) ==
    LET dfs == [i \in 1..Len(fs) |-> [fs[i] EXCEPT !.energy = Degrade(@, FoodDegradeFactor, DegradeFloor)]]
        dvs == [i \in 1..Len(vs) |-> [vs[i] EXCEPT !.toxicity = Degrade(@, VenomDegradeFactor, DegradeFloor)]]
    IN  IF config.cleanup_depleted
        THEN [foods |-> SelectSeq(dfs, IsLiveFood), venoms |-> SelectSeq(dvs, IsLiveVenom)]
        ELSE [foods |-> dfs, venoms |-> dvs]

\* _create_foods: the Food objects of the chunks, at the drawn positions
CreateFoods(chunks, positions) ==
    [i \in 1..Len(chunks) |-> [energy |-> chunks[i] \div Res, position |-> positions[i]]]

\* _create_venoms: the Venom objects of the chunks, at the drawn positions
CreateVenoms(chunks, positions) ==
    [i \in 1..Len(chunks) |->
        [toxicity |-> Scaled(chunks[i] \div Res, VenomEnergyToToxicity, 100),
         position |-> positions[i]]]

\* the throttle of run, lines 108-113, in a Universe(max_cells=max_cells):
\* cell_count // (max_cells // 2) divides by zero
ThrottleDividesByZero(cell_count, max_cells) ==
    /\ cell_count * 10 > max_cells * 8
    /\ max_cells \div 2 = 0

\* process_every_n of run, where the throttle does not raise
ProcessEveryN(cell_count, max_cells) ==
    IF cell_count * 10 > max_cells * 8
    THEN Max(1, cell_count \div (max_cells \div 2))
    ELSE 1

\* How the cell loop of run, lines 115-123, ends on the cells cs.  Line 117
\* calls cell.run() with no argument while Cell.run(self, state) requires
\* state, so the first processed cell raises TypeError; the cell at i = 0 is
\* always processed, because 0 % process_every_n == 0.
RunOutcome(cs) ==
    IF ThrottleDividesByZero(Len(cs), MaxCellsConfig) THEN "ZeroDivisionError"
    ELSE IF \E i \in 0..(Len(cs) - 1) : i % ProcessEveryN(Len(cs), MaxCellsConfig) = 0 THEN "TypeError"
    ELSE "returned"

RunInputs == {0, 1000}
RunCycles == {50, 51}
UniformDraws == {80, 99}                    \* random.uniform(0.8, 0.99)
SpawnPositions == {<<Width, Height>>}       \* _rand_position
Ratios == {0, Ratio, 100}                   \* Universe(ratio=...), valid ones
UniverseCells == { NewCell(e, <<0, 0>>, <<0, 0>>, 0) : e \in {20000} }
UniverseFoods == { [energy |-> 1000, position |-> <<300, 400>>] }
UniverseVenoms == { [toxicity |-> 1000, position |-> <<300, 400>>] }

\* the asserts of lines 48-49 with the bounds let through
ConfigAcceptedLoosely(r, width, height) ==
    /\ r <= 100
    /\ width >= 0 /\ height >= 0

\* the asserts of Universe.__init__, lines 48-49, hold
ConfigAccepted(r, width, height) ==
    /\ 0 <= r /\ r <= 100
    /\ width > 0 /\ height > 0

ConstructRatios == Ratios \cup {-1, 101}    \* Universe(ratio=...): -0.01 ... 1.01
ConstructExtents == {-100, 0, Width}        \* Universe(width=..., height=...)

\* the caller holds no Universe yet
Init ==
    /\ pc = "new"
    /\ p_total = 0 /\ p_min_unit = 1 /\ p_cap = 0 /\ p_chunks = <<>>
    /\ cells = <<>> /\ foods = <<>> /\ venoms = <<>>
    /\ energy = 0
    /\ boundary_mode = "bounce"
    /\ config = DefaultConfig
    /\ spatial_grid = EmptyGrid
    /\ outcome = "none" /\ calls = 0 /\ log = NoCall

\* Universe(initial_energy=7, ratio=r, width=width, height=height): the
\* asserts raise AssertionError and leave the caller without a Universe, or
\* the fields are set
Construct ==
    /\ pc = "new"
    /\ \E r \in ConstructRatios : \E width \in ConstructExtents : \E height \in ConstructExtents :
        /\ log' = [op |-> "init", ratio |-> r, width |-> width, height |-> height]
        /\ IF ConfigAccepted(r, width, height)
           THEN /\ pc' = "universe"
                /\ outcome' = "constructed"
                /\ config' = [config EXCEPT !.ratio = r]
                /\ energy' = InitialEnergy
           ELSE /\ pc' = "rejected"
                /\ outcome' = "AssertionError"
                /\ UNCHANGED <<config, energy>>
    /\ UNCHANGED <<partition_vars, cells, foods, venoms, boundary_mode, spatial_grid, calls>>

UniverseAddCell ==
    /\ pc = "universe"
    /\ \E cell \in UniverseCells : AddCell(cell)
    /\ UNCHANGED <<pc, calls, partition_vars>>

UniverseAddFood ==
    /\ pc = "universe"
    /\ \E food \in UniverseFoods : AddFood(food)
    /\ UNCHANGED <<pc, calls, partition_vars>>

UniverseAddVenom ==
    /\ pc = "universe"
    /\ \E venom \in UniverseVenoms : AddVenom(venom)
    /\ UNCHANGED <<pc, calls, partition_vars>>

\* the merge of lines 125-127 with the offspring always added
MergeOffspringUncapped(cs, offspring) == cs \o offspring

\* lines 125-127 of run: the offspring are added if they all fit under max_cells
MergeOffspring(cs, offspring) ==
    IF offspring # <<>> /\ Len(cs) + Len(offspring) <= MaxCellsConfig
    THEN cs \o offspring
    ELSE cs

\* the condition of line 130 taken to hold in every tick
SpawnsEveryTick(cycle_count, population) == TRUE

\* line 130 of run: resources are added, and the ledger is credited, in this tick
Spawns(cycle_count, population) ==
    cycle_count % SpawnPeriod = 0 /\ population < MaxCellsConfig

GridCellSize == 10000       \* Universe._grid_cell_size = 100.0

\* Universe._get_grid_key: int(x // size), the floor of the quotient
GetGridKey(position) ==
    <<position[1] \div GridCellSize, position[2] \div GridCellSize>>

\* Universe._update_spatial_grid: the grid is cleared, then every cell with
\* energy > 0 is appended to the list of its key, in the order of cells
UpdateSpatialGrid(cs) ==
    LET filed(c) == c.energy > 0
        keys == { GetGridKey(cs[i].position) : i \in { j \in 1..Len(cs) : filed(cs[j]) } }
    IN  [k \in keys |-> SelectSeq(cs, LAMBDA c : filed(c) /\ GetGridKey(c.position) = k)]

\* the keys _get_nearby_cells visits: dx in [-1, 0, 1], and for each dx,
\* dy in [-1, 0, 1]
NeighbourKeys(center_key) ==
    [n \in 1..9 |-> <<center_key[1] + ((n - 1) \div 3) - 1, center_key[2] + ((n - 1) % 3) - 1>>]

\* the cells of the keys check_keys[n..] that are within cell_check_radius of position
RECURSIVE NearbyIn(_, _, _, _)
NearbyIn(check_keys, n, position, grid) ==
    IF n > Len(check_keys) THEN <<>>
    ELSE (IF check_keys[n] \in DOMAIN grid
          THEN SelectSeq(grid[check_keys[n]],
                         LAMBDA c : Dist2(position, c.position) <= CellCheckRadius * CellCheckRadius)
          ELSE <<>>) \o NearbyIn(check_keys, n + 1, position, grid)

\* a query that looks only under the key of the position itself
GetNearbyCellsOwnKey(position, grid) ==
    NearbyIn(<<GetGridKey(position)>>, 1, position, grid)

\* Universe._get_nearby_cells
GetNearbyCells(position, grid) ==
    NearbyIn(NeighbourKeys(GetGridKey(position)), 1, position, grid)

\* a step of a tick: what is done, and the index of the cell it is done to
\* (0 for the steps on the whole universe)
Step(step, cell) == [step |-> step, cell |-> cell]

\* a call run(input_energy, cycle_count) that raises out of the cell loop:
\* only the spatial grid has been rebuilt, the collections are as before
RunRaises(input_energy, cycle_count) ==
    /\ RunOutcome(cells) # "returned"
    /\ outcome' = RunOutcome(cells)
    /\ log' = [op |-> "run", input_energy |-> input_energy, cycle_count |-> cycle_count,
               cells |-> cells, energy |-> energy, ran |-> <<>>,
               events |-> <<Step("grid", 0)>>]
    /\ spatial_grid' = UpdateSpatialGrid(cells)
    /\ UNCHANGED <<cells, foods, venoms, energy, boundary_mode, config>>

\* lines 125-145 of run, from the state st the cell loop left: the merge of
\* the offspring, the spawn, degrade_all and the cleanup.  st holds the cells,
\* foods and venoms after the loop, the buffered offspring, what Cell.run
\* returned for each cell (children) and the cells it ran on (ran).
RunTail(input_energy, cycle_count, st) ==
    LET merged == MergeOffspring(st.cells, st.offspring)
        spawns == Spawns(cycle_count, Len(merged))
    IN  \E u \in UniformDraws :
        LET usable == Scaled(Scaled(input_energy, WasteFactor, 100), u, 100)
            ef == Scaled(usable, config.ratio, 100)
            ev == Scaled(usable, 100 - config.ratio, 100)
        IN  \E fchunks \in IF spawns
                           THEN RandomPartition(ef, MinUnitFood, MaxNewFoods, RemEpsHundredths)
                           ELSE { <<>> } :
            \E vchunks \in IF spawns
                           THEN RandomPartition(ev, MinUnitVenom, MaxNewVenoms, RemEpsHundredths)
                           ELSE { <<>> } :
            \E fpos \in [1..Len(fchunks) -> SpawnPositions] :
            \E vpos \in [1..Len(vchunks) -> SpawnPositions] :
            LET foods_created == CreateFoods(fchunks, fpos)
                venoms_created == CreateVenoms(vchunks, vpos)
                degraded == DegradeAll(st.foods \o foods_created, st.venoms \o venoms_created)
            IN  /\ energy' = IF spawns THEN energy + input_energy ELSE energy
                /\ cells' = IF config.cleanup_depleted
                            THEN SelectSeq(merged, IsLiveCell) ELSE merged
                /\ foods' = IF config.cleanup_depleted
                            THEN SelectSeq(degraded.foods, IsLiveFood) ELSE degraded.foods
                /\ venoms' = IF config.cleanup_depleted
                             THEN SelectSeq(degraded.venoms, IsLiveVenom) ELSE degraded.venoms
                /\ log' = [op |-> "run", input_energy |-> input_energy,
                           cycle_count |-> cycle_count, cells |-> cells, energy |-> energy,
                           foods |-> foods, venoms |-> venoms,
                           ran |-> st.ran, children |-> st.children, after_loop |-> st.cells,
                           offspring |-> st.offspring, merged |-> merged, spawns |-> spawns,
                           foods_created |-> foods_created,
                           venoms_created |-> venoms_created,
                           child_contacts |-> st.child_contacts,
                           events |-> st.events \o <<Step("merge", 0)>>
                                      \o (IF spawns THEN <<Step("spawn", 0)>> ELSE <<>>)
                                      \o <<Step("degrade", 0)>>
                                      \o (IF config.cleanup_depleted
                                          THEN <<Step("cleanup", 0)>> ELSE <<>>)]

\* a call run(input_energy, cycle_count) that gets through the cell loop
RunReturns(input_energy, cycle_count) ==
    /\ RunOutcome(cells) = "returned"
    /\ RunTail(input_energy, cycle_count,
               [cells |-> cells, foods |-> foods, venoms |-> venoms,
                offspring |-> <<>>, children |-> <<>>, ran |-> <<>>,
                child_contacts |-> <<>>, events |-> <<Step("grid", 0)>>])
    /\ outcome' = "returned"
    /\ spatial_grid' = UpdateSpatialGrid(cells)
    /\ UNCHANGED <<boundary_mode, config>>

\* the caller calls run(input_energy, cycle_count) and the call raises
UniverseRunRaises ==
    /\ pc = "universe"
    /\ calls < MaxRuns
    /\ calls' = calls + 1
    /\ \E input_energy \in RunInputs : \E cycle_count \in RunCycles :
        RunRaises(input_energy, cycle_count)
    /\ UNCHANGED <<pc, partition_vars>>

\* the caller calls run(input_energy, cycle_count) and the call returns
UniverseRunReturns ==
    /\ pc = "universe"
    /\ calls < MaxRuns
    /\ calls' = calls + 1
    /\ \E input_energy \in RunInputs : \E cycle_count \in RunCycles :
        RunReturns(input_energy, cycle_count)
    /\ UNCHANGED <<pc, partition_vars>>

\* the attributes the statements of __init__ set on self
UniverseAttributes ==
    { "width", "height", "boundary_mode", "bounce_restitution",
      "max_cells", "cell_check_radius", "cell_check_radius2",
      "energy", "ratio", "waste_factor", "venom_energy_to_toxicity",
      "food_degrade_factor", "venom_degrade_factor", "cleanup_depleted",
      "max_new_foods", "max_new_venoms", "min_unit_food", "min_unit_venom",
      "foods", "venoms", "cells", "_spatial_grid", "_grid_cell_size" }

\* the attributes of self the dict display of get_state reads, in the order
\* in which it evaluates them
GetStateReads ==
    << "energy", "foods", "venoms", "cells",
       "width", "height", "boundary_mode", "bounce_restitution", "ratio", "waste_factor",
       "venom_energy_to_toxicity", "food_degrade_factor", "venom_degrade_factor",
       "cleanup_depleted", "max_new_foods", "max_new_venoms", "min_unit_food",
       "min_unit_venom", "touch_radius_food2", "touch_radius_venom2",
       "food_transfer_fraction", "venom_transfer_fraction", "food_transfer_cap",
       "venom_transfer_cap" >>

\* how get_state ends: reading an attribute that was never set raises
GetStateOutcome ==
    IF \A n \in 1..Len(GetStateReads) : GetStateReads[n] \in UniverseAttributes
    THEN "returned" ELSE "AttributeError"

\* the snapshot get_state builds: the ledger and the three collections in
\* collection order (a record of the model holds the values and the position)
GetState == [energy |-> energy, foods |-> foods, venoms |-> venoms, cells |-> cells]

\* the caller calls get_state(); nothing of the universe is assigned
UniverseGetState ==
    /\ pc = "universe"
    /\ outcome' = GetStateOutcome
    /\ log' = IF GetStateOutcome = "returned"
              THEN [op |-> "get_state", snapshot |-> GetState]
              ELSE [op |-> "get_state"]
    /\ UNCHANGED <<pc, partition_vars, cells, foods, venoms, energy, boundary_mode, config,
                   spatial_grid, calls>>

Next ==
    \/ Construct
    \/ UniverseAddCell
    \/ UniverseAddFood
    \/ UniverseAddVenom
    \/ UniverseRunRaises
    \/ UniverseRunReturns

Spec == Init /\ [][Next]_vars

\* a caller that constructs a Universe, adds cells, runs ticks and asks for
\* the state in between
SnapshotNext ==
    \/ Construct
    \/ UniverseAddCell
    \/ UniverseRunRaises
    \/ UniverseRunReturns
    \/ UniverseGetState

SpecSnapshot == Init /\ [][SnapshotNext]_vars

\* C1: run(input_energy, cycle_count) on a constructed Universe returns
\* normally from every reachable state, in particular from any state whose
\* live collection holds at least one cell: nothing raises out of run.
C1_RunNeverRaises ==
    log.op = "run" => outcome = "returned"

\* C15 as stated: every call run(input_energy, cycle_count) adds input_energy
\* to Universe.energy, at every cycle_count and every population size.
C15_LedgerCreditedEveryCall ==
    log.op = "run" => energy = log.energy + log.input_energy

\* C15 as amended: a call of run adds input_energy to Universe.energy exactly
\* when it reaches line 130 with cycle_count % 50 == 0 and
\* len(cells) < max_cells; in every other call, one that raises in the cell
\* loop included, Universe.energy is unchanged.  With input_energy >= 0 the
\* ledger never decreases.
C15_LedgerCreditedOnSpawn ==
    log.op = "run" =>
        LET credited == /\ outcome = "returned"
                        /\ log.cycle_count % SpawnPeriod = 0
                        /\ Len(log.merged) < MaxCellsConfig
        IN  /\ energy = IF credited THEN log.energy + log.input_energy ELSE log.energy
            /\ energy >= log.energy

\* a spawning tick that credited a positive input, on a ledger that an earlier
\* call had left alone
C15_Witness ==
    /\ log.op = "run" /\ outcome = "returned"
    /\ log.cycle_count % SpawnPeriod = 0 /\ log.input_energy > 0
    /\ energy = log.energy + log.input_energy
    /\ calls > 1 /\ log.energy = InitialEnergy

\* C16: a call of run with input_energy = 0 creates no Food and no Venom, for
\* every ratio in [0, 1] and positive min units: both returned lists are empty
\* and nothing is appended to universe.foods or universe.venoms.
C16_NothingFromZeroInput ==
    (log.op = "run" /\ outcome = "returned" /\ log.input_energy = 0) =>
        /\ log.foods_created = <<>>
        /\ log.venoms_created = <<>>
        /\ Len(foods) <= Len(log.foods)
        /\ Len(venoms) <= Len(log.venoms)

\* a spawning tick with input_energy = 0, in a universe that holds resources
C16_Witness ==
    /\ log.op = "run" /\ outcome = "returned"
    /\ log.input_energy = 0 /\ log.spawns
    /\ log.foods # <<>> /\ log.venoms # <<>>
    /\ log.foods_created = <<>> /\ log.venoms_created = <<>>

(***************************************************************************)
(* The tick of Universe.run past line 117.  As written, line 117 calls     *)
(* cell.run() without the state Cell.run requires and raises (RunOutcome); *)
(* the definitions below are the cell loop with that call made as          *)
(* cell.run(state), state listing the foods of the universe at the time of *)
(* the call, followed by lines 125-145 unchanged (RunTail).                *)
(***************************************************************************)
MaxPopulation == 3          \* the cells the universe starts a run of ticks with

\* lines 115-123 of run from the cell at index i on (indices from 1): st holds
\* the cells, foods and venoms so far, the buffered offspring, what Cell.run
\* returned for each cell (NoChild for a cell the throttle skips) and the
\* indices Cell.run ran on; n is process_every_n and draws[i] the draws of
\* the call on cell i
\* the body of the loop with the interaction of the cell made before the
\* boundary policy
ProcessCellInteractsFirst(i, st, draws) ==
    LET r == CellRun(st.cells[i], [foods |-> st.foods], draws[i])
        ip == InteractPartial(r.parent, st.foods, st.venoms)
        buffered == r.child # NoChild /\ Len(st.cells) < MaxCellsConfig
        ic == InteractPartial(ApplyBounds(r.child, boundary_mode), ip.foods, ip.venoms)
    IN  [cells |-> [st.cells EXCEPT ![i] = ApplyBounds(ip.cell, boundary_mode)],
         foods |-> IF buffered THEN ic.foods ELSE ip.foods,
         venoms |-> IF buffered THEN ic.venoms ELSE ip.venoms,
         offspring |-> IF buffered THEN Append(st.offspring, ic.cell) ELSE st.offspring,
         children |-> Append(st.children, r.child),
         ran |-> Append(st.ran, i),
         child_contacts |-> st.child_contacts \o (IF buffered THEN ic.contacts ELSE <<>>),
         events |-> st.events \o <<Step("run", i), Step("interact", i), Step("bounds", i)>>
                    \o (IF buffered THEN <<Step("child_bounds", i), Step("child_interact", i)>>
                        ELSE <<>>)]

\* lines 117-123 of run, the body of the loop for the cell at index i:
\* Cell.run, _apply_bounds and _interact_partial on the cell, then, for a
\* child born under the cap, _apply_bounds and _interact_partial on the child
\* and the child buffered.  child_contacts lists what the children touched.
ProcessCell(i, st, draws) ==
    LET r == CellRun(st.cells[i], [foods |-> st.foods], draws[i])
        ip == InteractPartial(ApplyBounds(r.parent, boundary_mode), st.foods, st.venoms)
        buffered == r.child # NoChild /\ Len(st.cells) < MaxCellsConfig
        ic == InteractPartial(ApplyBounds(r.child, boundary_mode), ip.foods, ip.venoms)
    IN  [cells |-> [st.cells EXCEPT ![i] = ip.cell],
         foods |-> IF buffered THEN ic.foods ELSE ip.foods,
         venoms |-> IF buffered THEN ic.venoms ELSE ip.venoms,
         offspring |-> IF buffered THEN Append(st.offspring, ic.cell) ELSE st.offspring,
         children |-> Append(st.children, r.child),
         ran |-> Append(st.ran, i),
         child_contacts |-> st.child_contacts \o (IF buffered THEN ic.contacts ELSE <<>>),
         events |-> st.events \o <<Step("run", i), Step("bounds", i), Step("interact", i)>>
                    \o (IF buffered THEN <<Step("child_bounds", i), Step("child_interact", i)>>
                        ELSE <<>>)]

RECURSIVE CellLoop(_, _, _, _)
CellLoop(i, st, n, draws) ==
    IF i > Len(st.cells) THEN st
    ELSE IF (i - 1) % n # 0
    THEN CellLoop(i + 1, [st EXCEPT !.children = Append(@, NoChild)], n, draws)
    ELSE CellLoop(i + 1, ProcessCell(i, st, draws), n, draws)

StrongCell == NewCell(20000, <<2500, 2500>>, <<0, 0>>, ReproductionAgeThreshold)
WeakCell == NewCell(510, <<2500, 2500>>, <<0, 0>>, 0)
OldCell == NewCell(20000, <<2500, 2500>>, <<0, 0>>, MaxAge - 1)
Rosters == { [i \in 1..(MaxPopulation + 1) |-> StrongCell],
             [i \in 1..(MaxPopulation + 1) |->
                 IF i = 1 THEN WeakCell ELSE IF i = 2 THEN OldCell ELSE StrongCell] }
TickPopulations == { SubSeq(r, 1, n) : r \in Rosters, n \in 0..MaxPopulation }
TickFood == [energy |-> 1000, position |-> <<2500, 2500>>]
TickVenom == [toxicity |-> 10000, position |-> <<2500, 2500>>]
TickInputs == {300}

TickInit ==
    /\ pc = "tick"
    /\ p_total = 0 /\ p_min_unit = 1 /\ p_cap = 0 /\ p_chunks = <<>>
    /\ cells \in TickPopulations
    /\ \/ foods = <<>> /\ venoms = <<>>
       \/ foods = <<TickFood>> /\ venoms = <<TickVenom>>
    /\ energy = InitialEnergy
    /\ boundary_mode = "bounce"
    /\ \E c \in BOOLEAN : config = [DefaultConfig EXCEPT !.cleanup_depleted = c]
    /\ spatial_grid = EmptyGrid
    /\ outcome = "none" /\ calls = 0 /\ log = NoCall

\* a call run(input_energy, cycle_count); the first cell draws d1 and the
\* others d2
TickRun ==
    /\ pc = "tick"
    /\ calls < MaxRuns
    /\ calls' = calls + 1
    /\ ~ThrottleDividesByZero(Len(cells), MaxCellsConfig)
    /\ \E input_energy \in TickInputs : \E cycle_count \in RunCycles :
       \E d1 \in CellDraws : \E d2 \in CellDraws :
        LET draws == [i \in 1..Len(cells) |-> IF i = 1 THEN d1 ELSE d2]
            st == CellLoop(1, [cells |-> cells, foods |-> foods, venoms |-> venoms,
                               offspring |-> <<>>, children |-> <<>>, ran |-> <<>>,
                               child_contacts |-> <<>>, events |-> <<Step("grid", 0)>>],
                           ProcessEveryN(Len(cells), MaxCellsConfig), draws)
        IN  RunTail(input_energy, cycle_count, st)
    /\ outcome' = "returned"
    /\ spatial_grid' = UpdateSpatialGrid(cells)
    /\ UNCHANGED <<pc, partition_vars, boundary_mode, config>>

TickNext == TickRun

SpecTick == TickInit /\ [][TickNext]_vars

FineFloor == 100                                \* the 0.01 of degrade, in ten-thousandths
DegradeStarts == {0, 99, 100, 101, 500, 30000}  \* 0.0 ... 3.0
DegradeFactors == {0, 50, 99}                   \* factors of [0, 1), in hundredths

DegradeInit ==
    /\ pc = "degrade"
    /\ p_total = 0 /\ p_min_unit = 1 /\ p_cap = 0 /\ p_chunks = <<>>
    /\ cells = <<>>
    /\ \E v \in DegradeStarts :
        \/ foods = << [energy |-> v, position |-> <<0, 0>>] >> /\ venoms = <<>>
        \/ foods = <<>> /\ venoms = << [toxicity |-> v, position |-> <<0, 0>>] >>
    /\ energy = 0
    /\ boundary_mode = "bounce" /\ config = DefaultConfig
    /\ spatial_grid = EmptyGrid
    /\ outcome = "none" /\ calls = 0 /\ log = NoCall

\* a call foods[1].degrade(factor)
DegradeFood ==
    /\ pc = "degrade"
    /\ foods # <<>>
    /\ \E factor \in DegradeFactors :
        LET after == Degrade(foods[1].energy, factor, FineFloor)
        IN  /\ foods' = [foods EXCEPT ![1].energy = after]
            /\ log' = [op |-> "degrade", factor |-> factor,
                       before |-> foods[1].energy, after |-> after]
    /\ UNCHANGED <<pc, partition_vars, cells, venoms, energy, boundary_mode, config, spatial_grid,
                   outcome, calls>>

\* a call venoms[1].degrade(factor)
DegradeVenom ==
    /\ pc = "degrade"
    /\ venoms # <<>>
    /\ \E factor \in DegradeFactors :
        LET after == Degrade(venoms[1].toxicity, factor, FineFloor)
        IN  /\ venoms' = [venoms EXCEPT ![1].toxicity = after]
            /\ log' = [op |-> "degrade", factor |-> factor,
                       before |-> venoms[1].toxicity, after |-> after]
    /\ UNCHANGED <<pc, partition_vars, cells, foods, energy, boundary_mode, config, spatial_grid,
                   outcome, calls>>

DegradeNext == DegradeFood \/ DegradeVenom

\* the caller keeps calling degrade
SpecDegrade ==
    DegradeInit /\ [][DegradeNext]_vars /\ WF_vars(DegradeFood) /\ WF_vars(DegradeVenom)

\* the value of the one Food or Venom the caller holds
HeldValue == IF foods # <<>> THEN foods[1].energy ELSE venoms[1].toxicity

\* C17: with a factor of [0, 1), a degraded value that falls below 0.01 is set
\* to exactly 0, degrade applied to 0 yields 0, and repeated degradation from
\* any non-negative start reaches exactly 0 after finitely many calls (and
\* stays there).
C17_DegradeReachesZero ==
    /\ [](log.op = "degrade" =>
            /\ (log.before * log.factor < FineFloor * 100 => log.after = 0)
            /\ (log.before = 0 => log.after = 0)
            /\ log.after >= 0)
    /\ <>[](HeldValue = 0)

\* a value at or above the floor that one call of degrade took below it, and
\* so to 0
C17_Witness ==
    /\ log.op = "degrade"
    /\ log.before >= FineFloor /\ log.factor > 0
    /\ log.after = 0 /\ HeldValue = 0

C20_EveryCellRunOnce ==
    log.op = "run" => log.ran = [i \in 1..Len(log.cells) |-> i]

\* C19: constructing a Universe with ratio < 0, ratio > 1, width <= 0 or
\* height <= 0 fails at construction, before any tick can run, and yields no
\* Universe; every ratio in [0, 1] with positive width and height is accepted.
C19_ConfigChecked ==
    /\ log.op = "init" =>
            IF \/ log.ratio < 0 \/ log.ratio > 100
               \/ log.width <= 0 \/ log.height <= 0
            THEN outcome = "AssertionError" /\ pc = "rejected"
            ELSE outcome = "constructed" /\ pc = "universe" /\ config.ratio = log.ratio
    /\ pc \in {"new", "rejected"} => calls = 0 /\ cells = <<>> /\ foods = <<>> /\ venoms = <<>>
    /\ pc = "rejected" => log.op = "init"

\* a construction with a valid ratio and a width of 0 that was rejected
C19_Witness ==
    /\ log.op = "init" /\ log.ratio \in Ratios /\ log.width = 0 /\ log.height > 0
    /\ outcome = "AssertionError" /\ pc = "rejected"

(***************************************************************************)
(* The spatial grid.  A caller adds cells, dead and alive, on both sides   *)
(* of the axes, rebuilds the grid and asks for the cells near a position.  *)
(***************************************************************************)

GridPositions ==
    { <<-10001, 0>>, <<-10000, 0>>, <<-1, -1>>, <<0, 0>>, <<10000, 0>>, <<5000, 9999>> }
GridCells == { NewCell(e, pos, <<0, 0>>, 0) : e \in {0, 100}, pos \in GridPositions }

GridInit ==
    /\ pc = "grid"
    /\ p_total = 0 /\ p_min_unit = 1 /\ p_cap = 0 /\ p_chunks = <<>>
    /\ cells = <<>> /\ foods = <<>> /\ venoms = <<>>
    /\ energy = 0
    /\ boundary_mode = "bounce" /\ config = DefaultConfig
    /\ spatial_grid = EmptyGrid
    /\ outcome = "none" /\ calls = 0 /\ log = NoCall

GridAddCell ==
    /\ pc = "grid"
    /\ \E cell \in GridCells : AddCell(cell)
    /\ UNCHANGED <<pc, calls, partition_vars>>

\* _update_spatial_grid()
GridUpdate ==
    /\ pc = "grid"
    /\ spatial_grid' = UpdateSpatialGrid(cells)
    /\ log' = [op |-> "update", fresh |-> TRUE, position |-> <<0, 0>>, result |-> <<>>]
    /\ UNCHANGED <<pc, calls, partition_vars, cells, foods, venoms, energy, boundary_mode,
                   config, outcome>>

\* _get_nearby_cells(position); fresh: no cell was added since the grid was built
GridQuery ==
    /\ pc = "grid"
    /\ \E position \in GridPositions :
        log' = [op |-> "nearby",
                fresh |-> log.op = "update" \/ (log.op = "nearby" /\ log.fresh),
                position |-> position,
                result |-> GetNearbyCells(position, spatial_grid)]
    /\ UNCHANGED <<pc, calls, partition_vars, cells, foods, venoms, energy, boundary_mode,
                   config, spatial_grid, outcome>>

GridNext ==
    \/ GridAddCell
    \/ GridUpdate
    \/ GridQuery

SpecGrid == GridInit /\ [][GridNext]_vars

\* how many times x occurs in seq
Count(seq, x) == Cardinality({ i \in 1..Len(seq) : seq[i] = x })

\* C21: right after the grid is rebuilt, a query at any position, negative
\* coordinates included, returns exactly the cells with energy > 0 whose
\* distance to the position is at most cell_check_radius (which is the grid
\* cell size here): each of them once, and no other cell
C21_NearbyIsExact ==
    (log.op = "nearby" /\ log.fresh) =>
        LET near(c) == c.energy > 0
                       /\ Dist2(log.position, c.position) <= CellCheckRadius * CellCheckRadius
        IN  \A c \in GridCells : Count(log.result, c) = Count(SelectSeq(cells, near), c)

\* a query on the positive side finds a live cell filed under a negative key
C21_Witness ==
    /\ log.op = "nearby" /\ log.fresh
    /\ log.position = <<0, 0>>
    /\ \E i \in 1..Len(log.result) : log.result[i].position[1] < 0

\* C22: get_state() can be called after construction and after any tick: it
\* returns, and its snapshot lists the ledger and every food, venom and cell
\* of the live collections in collection order
C22_GetStateReturns ==
    log.op = "get_state" =>
        /\ outcome = "returned"
        /\ log.snapshot = [energy |-> energy, foods |-> foods, venoms |-> venoms,
                           cells |-> cells]

Speed == 300                \* Cell.speed = 3.0

\* C23: after the movement step of Cell.run the speed sqrt(vx^2 + vy^2) of
\* the cell is at most Cell.speed, whatever think and the acceleration
\* update produced
C23_SpeedClamped ==
    (log.op = "run" /\ log.after.position # log.before.position) =>
        log.after.vx * log.after.vx + log.after.vy * log.after.vy <= Speed * Speed

\* the phase of a step: the grid, the cell pass, the merge, the spawn, the
\* degradation, the cleanup
Phase(e) ==
    CASE e.step = "grid" -> 0
      [] e.step \in {"run", "bounds", "interact", "child_bounds", "child_interact"} -> 1
      [] e.step = "merge" -> 2
      [] e.step = "spawn" -> 3
      [] e.step = "degrade" -> 4
      [] e.step = "cleanup" -> 5

C25_ReproductionAccounting ==
    (log.op = "reproduce" /\ log.child # NoChild) =>
        /\ log.child.age = 0
        /\ log.child.energy = log.before.energy \div 2
        /\ log.before.energy - log.child.energy - log.after.energy = ReproductionOverhead
        /\ log.after.energy + log.child.energy < log.before.energy

\* a call of reproduce that returned a child
C25_Witness ==
    /\ log.op = "reproduce" /\ log.child # NoChild
    /\ log.child.energy > 0
    /\ log.after.energy > 0

\* C26: within Cell.run the death branch of reproduce is not reached: a cell
\* that passes the death check has energy > 5.0 when reproduce is called, so
\* a run that returns a child leaves the parent with energy > 0, run kills
\* no cell after it has moved, and a cell that run leaves Dead has the
\* position it had before the call
C26_NoDeathAfterMove ==
    log.op = "run" =>
        /\ log.child # NoChild => log.after.energy > 0
        /\ log.after.energy <= 0 => log.after.position = log.before.position
        /\ (log.after.energy <= 0 /\ log.before.energy > 0) => Dies(Metabolism(log.before))

\* a run in which a cell just above the death check, with a reproduction
\* threshold below it, moved and reproduced
C26_Witness ==
    /\ log.op = "run"
    /\ log.before.reproduction_energy_threshold < DeathThreshold
    /\ log.child # NoChild
    /\ log.after.position # log.before.position
    /\ log.after.energy > 0 /\ log.after.energy < DeathThreshold

(***************************************************************************)
(* The throttle of run on its own: lines 108-113 for a Universe of any     *)
(* max_cells holding any number of cells up to it.                         *)
(***************************************************************************)
MaxThrottleCells == 10      \* the largest max_cells tried

ThrottleInit ==
    /\ pc = "throttle"
    /\ p_total = 0 /\ p_min_unit = 1 /\ p_cap = 0 /\ p_chunks = <<>>
    /\ cells = <<>> /\ foods = <<>> /\ venoms = <<>>
    /\ energy = 0
    /\ boundary_mode = "bounce" /\ config = DefaultConfig
    /\ spatial_grid = EmptyGrid
    /\ outcome = "none" /\ calls = 0
    /\ \E max_cells \in 1..MaxThrottleCells : \E cell_count \in 0..max_cells :
        log = [op |-> "args", max_cells |-> max_cells, cell_count |-> cell_count, stride |-> 0]

\* lines 108-113 on the population and the max_cells at hand
ThrottleRun ==
    /\ pc = "throttle"
    /\ log.op = "args"
    /\ IF ThrottleDividesByZero(log.cell_count, log.max_cells)
       THEN /\ outcome' = "ZeroDivisionError"
            /\ log' = [log EXCEPT !.op = "throttle"]
       ELSE /\ outcome' = "returned"
            /\ log' = [log EXCEPT !.op = "throttle",
                                  !.stride = ProcessEveryN(log.cell_count, log.max_cells)]
    /\ UNCHANGED <<pc, partition_vars, cells, foods, venoms, energy, boundary_mode, config,
                   spatial_grid, calls>>

\* another universe, another population
ThrottleArgs ==
    /\ pc = "throttle"
    /\ log.op = "throttle"
    /\ \E max_cells \in 1..MaxThrottleCells : \E cell_count \in 0..max_cells :
        log' = [op |-> "args", max_cells |-> max_cells, cell_count |-> cell_count,
                stride |-> 0]
    /\ outcome' = "none"
    /\ UNCHANGED <<pc, partition_vars, cells, foods, venoms, energy, boundary_mode, config,
                   spatial_grid, calls>>

ThrottleNext ==
    \/ ThrottleRun
    \/ ThrottleArgs

SpecThrottle == ThrottleInit /\ [][ThrottleNext]_vars

\* C27: for every max_cells >= 1 and every population 0 <= cell_count <=
\* max_cells the throttle of run divides by no zero and yields a stride >= 1
C27_ThrottleDefined ==
    log.op = "throttle" => (outcome = "returned" /\ log.stride >= 1)

\* the last n elements of seq (all of it when it has fewer)
Tail_n(seq, n) == SubSeq(seq, Max(1, Len(seq) - n + 1), Len(seq))

\* C28 as first stated: every Food and Venom that run returns as newly created
\* is in universe.foods / universe.venoms when run returns, with the value
\* the partitioner assigned to it (energy >= min_unit_food, toxicity >=
\* min_unit_venom * venom_energy_to_toxicity): the degradation and cleanup
\* of the creating tick do not touch it
C28_CreatedUntouched ==
    (log.op = "run" /\ outcome = "returned") =>
        /\ Tail_n(foods, Len(log.foods_created)) = log.foods_created
        /\ Tail_n(venoms, Len(log.venoms_created)) = log.venoms_created
        /\ \A i \in 1..Len(log.foods_created) : log.foods_created[i].energy >= MinUnitFood
        /\ \A i \in 1..Len(log.venoms_created) :
            log.venoms_created[i].toxicity >= Scaled(MinUnitVenom, VenomEnergyToToxicity, 100)

\* C28: every Food and Venom that run returns as newly created has been
\* degraded once by the tick that created it: when run returns it carries
\* the value the partitioner assigned multiplied by food_degrade_factor /
\* venom_degrade_factor (exactly 0 if that product is below 0.01), and it
\* is in universe.foods / universe.venoms, in creation order after the older
\* resources, unless cleanup_depleted is set and that value is 0
C28_CreatedDegradedOnce ==
    (log.op = "run" /\ outcome = "returned") =>
        LET df == [i \in 1..Len(log.foods_created) |->
                      [log.foods_created[i] EXCEPT
                          !.energy = Degrade(@, FoodDegradeFactor, DegradeFloor)]]
            dv == [i \in 1..Len(log.venoms_created) |->
                      [log.venoms_created[i] EXCEPT
                          !.toxicity = Degrade(@, VenomDegradeFactor, DegradeFloor)]]
            kf == IF config.cleanup_depleted THEN SelectSeq(df, IsLiveFood) ELSE df
            kv == IF config.cleanup_depleted THEN SelectSeq(dv, IsLiveVenom) ELSE dv
        IN  /\ Len(foods) >= Len(kf) /\ Tail_n(foods, Len(kf)) = kf
            /\ Len(venoms) >= Len(kv) /\ Tail_n(venoms, Len(kv)) = kv
            /\ \A i \in 1..Len(log.foods_created) : log.foods_created[i].energy >= MinUnitFood
            /\ \A i \in 1..Len(log.venoms_created) :
                log.venoms_created[i].toxicity
                    >= Scaled(MinUnitVenom, VenomEnergyToToxicity, 100)

\* a tick that created food and venom in a universe that held both
C28_Witness ==
    /\ log.op = "run" /\ outcome = "returned"
    /\ log.foods_created # <<>> /\ log.venoms_created # <<>>
    /\ log.foods # <<>> /\ log.venoms # <<>>
    /\ Len(foods) >= Len(log.foods_created) + 1

====
